---------------------------- MODULE Spec2Model ----------------------------
(***************************************************************************)
(* Model of the scoring core of fin_pulse_engine.py:                       *)
(*   calculate_credit_score  (debt ratio, market cap, news sentiment,      *)
(*                            aggregation and clamp)                       *)
(*   get_rating_category     (seven rating bands)                          *)
(*                                                                         *)
(* Python values are records with a type tag, so that None, a number and   *)
(* a string stay distinct.  Money amounts are counted in millions of the   *)
(* currency unit (1,000,000,000 is 1000); every comparison the code makes  *)
(* on floats is made here on exact integers, which yields the same truth   *)
(* value for all amounts of the model.  Text is a sequence of one-letter   *)
(* strings, so that lower() and the substring test of `in` are computed.   *)
(***************************************************************************)
EXTENDS Integers, Sequences, FiniteSets, TLC

VARIABLES
    pc,                    \* position in main() / calculate_credit_score
    financial_data,        \* argument: None or the snapshot dict
    news_headlines,        \* argument: list of headline dicts
    idx,                   \* number of headlines the for loop has consumed
    current_score,         \* local of calculate_credit_score
    explanation,           \* the explanation dict under construction
    news_sentiment_impact, \* local of the sentiment scan
    positive_count,        \* local of the sentiment scan
    negative_count,        \* local of the sentiment scan
    raised,                \* "" or the exception that escaped
    final_score,           \* returned score
    rating,                \* label main() got from get_rating_category
    probe,                 \* inputs of a direct evaluation of one stage
    probed                 \* results of the evaluations made so far

vars == << pc, financial_data, news_headlines, idx, current_score, explanation,
           news_sentiment_impact, positive_count, negative_count, raised,
           final_score, rating, probe, probed >>

---------------------------------------------------------------------------
(* Bounds of the model *)

\* longest headline list made of one repeated headline
MaxHeadlines == 6

\* longest headline list made of arbitrary headlines
MaxMixedLen == 2

\* largest total_revenue / total_debt of the direct debt-ratio evaluations
MaxAmount == 11

---------------------------------------------------------------------------
(* Python values *)

PyNone == [t |-> "none", v |-> 0, s |-> ""]

PyInt(n) == [t |-> "int", v |-> n, s |-> ""]

PyStr(x) == [t |-> "str", v |-> 0, s |-> x]

\* a float shown with `digits` decimals: v is the value times 10^digits
PyRounded(n, digits) == [t |-> IF digits = 3 THEN "float3" ELSE "float2", v |-> n, s |-> ""]

\* text: None or a sequence of characters
TextNone == [t |-> "none", chars |-> << >>]

Text(cs) == [t |-> "str", chars |-> cs]

EmptyDict == [k \in {} |-> PyNone]

\* dict.get(key, default): the default is used only when the key is missing;
\* a key that is present with the value None yields None
Get(d, key, default) == IF key \in DOMAIN d THEN d[key] ELSE default

\* d[key] = value
Put(d, key, value) == [k \in DOMAIN d \cup {key} |-> IF k = key THEN value ELSE d[k]]

\* the dict holding the entries of `full` that are not marked missing
Missing == [t |-> "missing", v |-> 0, s |-> ""]

MkDict(full) == [k \in {x \in DOMAIN full : full[x] # Missing} |-> full[k]]

TextMissing == [t |-> "missing", chars |-> << >>]

MkHeadline(title, description) ==
    LET full == [title |-> title, description |-> description]
    IN  [k \in {x \in DOMAIN full : full[x] # TextMissing} |-> full[k]]

\* round(num / den) to the nearest integer, ties to even (Python's round)
RoundHalfEven(num, den) ==
    LET q == num \div den
        r == num % den
    IN  IF 2 * r < den THEN q
        ELSE IF 2 * r > den THEN q + 1
        ELSE IF q % 2 = 0 THEN q ELSE q + 1

---------------------------------------------------------------------------
(* Program constants *)

base_score == 50

UsdToInr == 83

\* 1_000_000_000 in the model's unit of one million
Billion == 1000

ScoreFloor == 0

ScoreCeiling == 100

SentimentStep == 5

---------------------------------------------------------------------------
(* Text: lower(), concatenation and the substring test *)

UpperCase ==
    <<"A", "B", "C", "D", "E", "F", "G", "H", "I", "J", "K", "L", "M", "N", "O", "P", "Q", "R", "S", "T", "U", "V", "W", "X", "Y", "Z">>

LowerCase ==
    <<"a", "b", "c", "d", "e", "f", "g", "h", "i", "j", "k", "l", "m", "n", "o", "p", "q", "r", "s", "t", "u", "v", "w", "x", "y", "z">>

lower_char(c) ==
    IF \E i \in 1..Len(UpperCase) : UpperCase[i] = c
    THEN LowerCase[CHOOSE i \in 1..Len(UpperCase) : UpperCase[i] = c]
    ELSE c

\* str.lower()
lower(cs) == [i \in 1..Len(cs) |-> lower_char(cs[i])]

\* keyword in full_text
Contains(full_text, keyword) ==
    \E i \in 1..(Len(full_text) - Len(keyword) + 1) :
        SubSeq(full_text, i, i + Len(keyword) - 1) = keyword

positive_keywords ==
    << <<"p", "r", "o", "f", "i", "t">>,
       <<"g", "r", "o", "w", "t", "h">>,
       <<"d", "e", "a", "l">>,
       <<"u", "p", "g", "r", "a", "d", "e">>,
       <<"s", "u", "r", "g", "e">>,
       <<"g", "a", "i", "n">>,
       <<"r", "i", "s", "e">>,
       <<"e", "x", "p", "a", "n", "s", "i", "o", "n">>,
       <<"a", "c", "q", "u", "i", "s", "i", "t", "i", "o", "n">>,
       <<"p", "a", "r", "t", "n", "e", "r", "s", "h", "i", "p">>,
       <<"s", "u", "c", "c", "e", "s", "s">>,
       <<"r", "e", "c", "o", "r", "d">>,
       <<"s", "t", "r", "o", "n", "g">>,
       <<"r", "o", "b", "u", "s", "t">>,
       <<"p", "o", "s", "i", "t", "i", "v", "e">>,
       <<"b", "u", "l", "l", "i", "s", "h">>,
       <<"o", "p", "t", "i", "m", "i", "s", "t", "i", "c">> >>

negative_keywords ==
    << <<"l", "o", "s", "s">>,
       <<"f", "r", "a", "u", "d">>,
       <<"s", "c", "a", "m">>,
       <<"d", "o", "w", "n", "g", "r", "a", "d", "e">>,
       <<"s", "l", "u", "m", "p">>,
       <<"d", "e", "c", "l", "i", "n", "e">>,
       <<"f", "a", "l", "l">>,
       <<"c", "r", "a", "s", "h">>,
       <<"l", "a", "w", "s", "u", "i", "t">>,
       <<"i", "n", "v", "e", "s", "t", "i", "g", "a", "t", "i", "o", "n">>,
       <<"l", "a", "y", "o", "f", "f", "s">>,
       <<"c", "r", "i", "s", "i", "s">>,
       <<"w", "a", "r", "n", "i", "n", "g">>,
       <<"d", "e", "f", "i", "c", "i", "t">>,
       <<"t", "r", "o", "u", "b", "l", "e">>,
       <<"c", "o", "n", "c", "e", "r", "n">>,
       <<"r", "i", "s", "k">>,
       <<"s", "c", "a", "n", "d", "a", "l">> >>

\* headline texts the model draws its inputs from
TxtRecordProfit ==
    <<"C", "o", "m", "p", "a", "n", "y", " ", "r", "e", "p", "o", "r", "t", "s", " ", "r", "e", "c", "o", "r", "d", " ", "p", "r", "o", "f", "i", "t">>

TxtFraudProbe ==
    <<"F", "r", "a", "u", "d", " ", "i", "n", "v", "e", "s", "t", "i", "g", "a", "t", "i", "o", "n", " ", "l", "a", "u", "n", "c", "h", "e", "d">>

TxtMixed ==
    <<"R", "e", "c", "o", "r", "d", " ", "p", "r", "o", "f", "i", "t", " ", "d", "e", "s", "p", "i", "t", "e", " ", "l", "a", "w", "s", "u", "i", "t">>

TxtConcerning ==
    <<"O", "u", "t", "l", "o", "o", "k", " ", "i", "s", " ", "C", "O", "N", "C", "E", "R", "N", "I", "N", "G">>

TxtBoard ==
    <<"B", "o", "a", "r", "d", " ", "m", "e", "e", "t", "i", "n", "g", " ", "h", "e", "l", "d">>

TxtStrong ==
    <<"S", "t", "r", "o", "n", "g", " ", "G", "r", "o", "w", "t", "h", " ", "a", "h", "e", "a", "d">>

TxtPro ==
    <<"p", "r", "o">>

TxtFit ==
    <<"f", "i", "t">>

---------------------------------------------------------------------------
(* 1. Debt-to-revenue ratio analysis (lines 170-204) *)

\* Python's `a > n` / `a >= n` between a value and an int: None is unorderable
Orderable(x) == x.t = "int"

\* debt_ratio <= tenths / 10, for debt_ratio = total_debt / total_revenue
RatioAtMost(total_debt, total_revenue, tenths) ==
    10 * total_debt <= tenths * total_revenue

\* mutant: the impacts of the two bands below 1.0 are exchanged
DebtBand_Swapped(total_debt, total_revenue) ==
    IF RatioAtMost(total_debt, total_revenue, 2) THEN 25
    ELSE IF RatioAtMost(total_debt, total_revenue, 4) THEN 15
    ELSE IF RatioAtMost(total_debt, total_revenue, 6) THEN 5
    ELSE IF RatioAtMost(total_debt, total_revenue, 8) THEN -15
    ELSE IF RatioAtMost(total_debt, total_revenue, 10) THEN -5
    ELSE -25

\* the if / elif chain on debt_ratio
DebtBand(total_debt, total_revenue) ==
    IF RatioAtMost(total_debt, total_revenue, 2) THEN 25
    ELSE IF RatioAtMost(total_debt, total_revenue, 4) THEN 15
    ELSE IF RatioAtMost(total_debt, total_revenue, 6) THEN 5
    ELSE IF RatioAtMost(total_debt, total_revenue, 8) THEN -5
    ELSE IF RatioAtMost(total_debt, total_revenue, 10) THEN -15
    ELSE -25

StageRaised(exception) ==
    [raised |-> exception, impact |-> 0, shown |-> PyNone]

StageResult(impact, shown) ==
    [raised |-> "", impact |-> impact, shown |-> shown]

\* mutant: the guard is total_revenue >= 0, so a zero revenue is divided by
DebtGuard_AllowsZero(total_revenue, total_debt) ==
    IF ~Orderable(total_revenue) THEN "raise"
    ELSE IF ~(total_revenue.v >= 0) THEN "false"
    ELSE IF ~Orderable(total_debt) THEN "raise"
    ELSE IF total_debt.v >= 0 THEN "true" ELSE "false"

\* the guard `total_revenue > 0 and total_debt >= 0`: "raise", "true" or "false".
\* `and` evaluates total_debt >= 0 only when total_revenue > 0 is true.
DebtGuard(total_revenue, total_debt) ==
    IF ~Orderable(total_revenue) THEN "raise"
    ELSE IF ~(total_revenue.v > 0) THEN "false"
    ELSE IF ~Orderable(total_debt) THEN "raise"
    ELSE IF total_debt.v >= 0 THEN "true" ELSE "false"

\* the whole try / except block: impact and the debt_ratio entry, or the
\* exception that is not a ZeroDivisionError and escapes
DebtRatioAnalysis(fd) ==
    LET total_revenue == Get(fd, "total_revenue", PyInt(0))
        total_debt    == Get(fd, "total_debt", PyInt(0))
        guard         == DebtGuard(total_revenue, total_debt)
    IN  IF guard = "raise" THEN StageRaised("TypeError")
        ELSE IF guard = "true"
        THEN IF total_revenue.v = 0
             THEN \* total_debt / total_revenue raises ZeroDivisionError
                  StageResult(-20, PyStr("Revenue is zero"))
             ELSE StageResult(DebtBand(total_debt.v, total_revenue.v),
                              PyRounded(RoundHalfEven(1000 * total_debt.v,
                                                      total_revenue.v), 3))
        ELSE StageResult(-10, PyStr("Data unavailable"))

---------------------------------------------------------------------------
(* 2. Market cap analysis (lines 206-237) *)

\* mutant: the currency is compared without regard to case
MarketCapInr_AnyCase(market_cap, currency) ==
    IF currency = PyStr("USD") \/ currency = PyStr("usd")
    THEN market_cap * UsdToInr ELSE market_cap

\* market_cap_inr: only the exact string 'USD' is converted
MarketCapInr(market_cap, currency) ==
    IF currency = PyStr("USD") THEN market_cap * UsdToInr ELSE market_cap

\* market_cap_billions >= billions, for market_cap_billions = market_cap_inr / 1e9
BillionsAtLeast(market_cap_inr, billions) ==
    market_cap_inr >= billions * Billion

\* mutant: the impacts of the bands from 50 and from 100 are exchanged
MarketCapBand_Swapped(market_cap_inr) ==
    IF BillionsAtLeast(market_cap_inr, 500) THEN 20
    ELSE IF BillionsAtLeast(market_cap_inr, 100) THEN 10
    ELSE IF BillionsAtLeast(market_cap_inr, 50) THEN 15
    ELSE IF BillionsAtLeast(market_cap_inr, 10) THEN 5
    ELSE 0

\* the if / elif chain on market_cap_billions
MarketCapBand(market_cap_inr) ==
    IF BillionsAtLeast(market_cap_inr, 500) THEN 20
    ELSE IF BillionsAtLeast(market_cap_inr, 100) THEN 15
    ELSE IF BillionsAtLeast(market_cap_inr, 50) THEN 10
    ELSE IF BillionsAtLeast(market_cap_inr, 10) THEN 5
    ELSE 0

MarketCapAnalysis(fd) ==
    LET market_cap == Get(fd, "market_cap", PyInt(0))
    IN  IF ~Orderable(market_cap) THEN StageRaised("TypeError")
        ELSE IF market_cap.v > 0
        THEN LET currency       == Get(fd, "currency", PyStr("INR"))
                 market_cap_inr == MarketCapInr(market_cap.v, currency)
             IN  StageResult(MarketCapBand(market_cap_inr),
                             PyRounded(RoundHalfEven(market_cap_inr, Billion \div 100), 2))
        ELSE StageResult(0, PyStr("Data unavailable"))

---------------------------------------------------------------------------
(* 3. News sentiment analysis, one headline (lines 258-272) *)

\* any(keyword in full_text for keyword in keywords)
AnyKeyword(full_text, keywords) ==
    \E i \in 1..Len(keywords) : Contains(full_text, keywords[i])

\* f"{title} {description}"
FullText(title, description) == title \o <<" ">> \o description

\* mutant: the positive test is made first
ScanHeadline_PositiveFirst(headline) ==
    LET title       == Get(headline, "title", Text(<< >>))
        description == Get(headline, "description", Text(<< >>))
    IN  IF title.t # "str" \/ description.t # "str"
        THEN [raised |-> "AttributeError", negative |-> 0, positive |-> 0, impact |-> 0]
        ELSE LET full_text    == FullText(lower(title.chars), lower(description.chars))
                 has_positive == AnyKeyword(full_text, positive_keywords)
                 has_negative == AnyKeyword(full_text, negative_keywords)
             IN  IF has_positive
                 THEN [raised |-> "", negative |-> 0, positive |-> 1,
                       impact |-> SentimentStep]
                 ELSE IF has_negative
                 THEN [raised |-> "", negative |-> 1, positive |-> 0,
                       impact |-> -SentimentStep]
                 ELSE [raised |-> "", negative |-> 0, positive |-> 0, impact |-> 0]

\* what scanning one headline does: the exception None.lower() raises, or the
\* change of negative_count, positive_count and news_sentiment_impact
ScanHeadline(headline) ==
    LET title       == Get(headline, "title", Text(<< >>))
        description == Get(headline, "description", Text(<< >>))
    IN  IF title.t # "str" \/ description.t # "str"
        THEN [raised |-> "AttributeError", negative |-> 0, positive |-> 0, impact |-> 0]
        ELSE LET full_text    == FullText(lower(title.chars), lower(description.chars))
                 has_positive == AnyKeyword(full_text, positive_keywords)
                 has_negative == AnyKeyword(full_text, negative_keywords)
             IN  IF has_negative
                 THEN [raised |-> "", negative |-> 1, positive |-> 0,
                       impact |-> -SentimentStep]
                 ELSE IF has_positive
                 THEN [raised |-> "", negative |-> 0, positive |-> 1,
                       impact |-> SentimentStep]
                 ELSE [raised |-> "", negative |-> 0, positive |-> 0, impact |-> 0]

---------------------------------------------------------------------------
(* 4. Clamp (line 280) and the rating bands (lines 383-398) *)

Min(a, b) == IF a <= b THEN a ELSE b

Max(a, b) == IF a >= b THEN a ELSE b

\* mutant: the lower clamp is lost
ClampScore_NoFloor(score) == Min(ScoreCeiling, score)

\* mutant: the upper clamp is lost
ClampScore_NoCeiling(score) == Max(ScoreFloor, score)

\* max(0, min(100, current_score))
ClampScore(score) == Max(ScoreFloor, Min(ScoreCeiling, score))

\* mutant: the top band's bound is exclusive
get_rating_category_Exclusive(score) ==
    IF score > 85 THEN "AAA (Excellent)"
    ELSE IF score >= 75 THEN "AA (Very Good)"
    ELSE IF score >= 65 THEN "A (Good)"
    ELSE IF score >= 55 THEN "BBB (Fair)"
    ELSE IF score >= 45 THEN "BB (Below Average)"
    ELSE IF score >= 35 THEN "B (Poor)"
    ELSE "C (High Risk)"

get_rating_category(score) ==
    IF score >= 85 THEN "AAA (Excellent)"
    ELSE IF score >= 75 THEN "AA (Very Good)"
    ELSE IF score >= 65 THEN "A (Good)"
    ELSE IF score >= 55 THEN "BBB (Fair)"
    ELSE IF score >= 45 THEN "BB (Below Average)"
    ELSE IF score >= 35 THEN "B (Poor)"
    ELSE "C (High Risk)"

---------------------------------------------------------------------------
(* Inputs *)

\* what get_financial_data can put under a numeric key (a number, or None
\* when the provider reports null); Missing is a dict without the key
Revenues == {Missing, PyNone, PyInt(0), PyInt(1000)}

Debts == {Missing, PyNone, PyInt(0), PyInt(150), PyInt(1200)}

MarketCaps == {Missing, PyNone, PyInt(0), PyInt(6000), PyInt(600000)}

Currencies == {Missing, PyStr("USD"), PyStr("INR")}

Snapshot(total_revenue, total_debt, market_cap, currency) ==
    MkDict([total_revenue |-> total_revenue, total_debt |-> total_debt,
            market_cap |-> market_cap, currency |-> currency])

NoSnapshot == [t |-> "none", d |-> EmptyDict]

Present(d) == [t |-> "dict", d |-> d]

Snapshots ==
    {NoSnapshot} \cup
    {Present(Snapshot(r, d, m, c)) :
        r \in Revenues, d \in Debts, m \in MarketCaps, c \in Currencies}

Headlines ==
    { MkHeadline(Text(TxtRecordProfit), TextMissing),
      MkHeadline(Text(TxtFraudProbe), TextMissing),
      MkHeadline(Text(TxtMixed), Text(<< >>)),
      MkHeadline(Text(TxtStrong), Text(TxtConcerning)),
      MkHeadline(Text(TxtBoard), Text(<< >>)),
      MkHeadline(Text(TxtBoard), TextNone),
      MkHeadline(TextNone, Text(TxtStrong)),
      MkHeadline(TextMissing, Text(TxtStrong)),
      MkHeadline(Text(<< >>), Text(TxtStrong)),
      MkHeadline(Text(TxtPro), Text(TxtFit)) }

\* every list of at most MaxMixedLen headlines, and every list of at most
\* MaxHeadlines copies of one headline
HeadlineLists ==
    UNION {[1..n -> Headlines] : n \in 0..MaxMixedLen}
    \cup {[i \in 1..n |-> h] : n \in 0..MaxHeadlines, h \in Headlines}

\* ScanHeadline of every headline of the model, computed once
Scanned == [h \in Headlines |-> ScanHeadline(h)]

---------------------------------------------------------------------------
(* The run of main(): calculate_credit_score, then get_rating_category *)

NoProbe == [kind |-> "none"]

Init ==
    /\ pc = "start"
    /\ financial_data \in Snapshots
    /\ news_headlines \in HeadlineLists
    /\ idx = 0
    /\ current_score = 0
    /\ explanation = EmptyDict
    /\ news_sentiment_impact = 0
    /\ positive_count = 0
    /\ negative_count = 0
    /\ raised = ""
    /\ final_score = 0
    /\ rating = ""
    /\ probe = NoProbe
    /\ probed = << >>

\* mutant: the early return also reports a final_score
ErrorExplanation_WithFinal ==
    [base_score |-> PyInt(0), debt_ratio_impact |-> PyInt(0),
     market_cap_impact |-> PyInt(0), news_sentiment_impact |-> PyInt(0),
     error |-> PyStr("Invalid ticker or data unavailable"),
     final_score |-> PyInt(0)]

ErrorExplanation ==
    [base_score |-> PyInt(0), debt_ratio_impact |-> PyInt(0),
     market_cap_impact |-> PyInt(0), news_sentiment_impact |-> PyInt(0),
     error |-> PyStr("Invalid ticker or data unavailable")]

InitialExplanation ==
    [base_score |-> PyInt(base_score), debt_ratio_impact |-> PyInt(0),
     market_cap_impact |-> PyInt(0), news_sentiment_impact |-> PyInt(0)]

\* lines 149-168: the pre-check and the initialisation
Enter ==
    /\ pc = "start"
    /\ IF financial_data.t = "none"
       THEN /\ pc' = "returned"
            /\ final_score' = 0
            /\ explanation' = ErrorExplanation
            /\ UNCHANGED current_score
       ELSE /\ pc' = "debt"
            /\ current_score' = base_score
            /\ explanation' = InitialExplanation
            /\ UNCHANGED final_score
    /\ UNCHANGED << financial_data, news_headlines, idx, news_sentiment_impact,
                    positive_count, negative_count, raised, rating, probe, probed >>

\* lines 170-204
DebtStage ==
    /\ pc = "debt"
    /\ LET r == DebtRatioAnalysis(financial_data.d)
       IN  IF r.raised # ""
           THEN /\ pc' = "raised"
                /\ raised' = r.raised
                /\ UNCHANGED << explanation, current_score >>
           ELSE /\ pc' = "cap"
                /\ explanation' = Put(Put(explanation, "debt_ratio", r.shown),
                                      "debt_ratio_impact", PyInt(r.impact))
                /\ current_score' = current_score + r.impact
                /\ UNCHANGED raised
    /\ UNCHANGED << financial_data, news_headlines, idx, news_sentiment_impact,
                    positive_count, negative_count, final_score, rating, probe, probed >>

\* lines 206-254
MarketCapStage ==
    /\ pc = "cap"
    /\ LET r == MarketCapAnalysis(financial_data.d)
       IN  IF r.raised # ""
           THEN /\ pc' = "raised"
                /\ raised' = r.raised
                /\ UNCHANGED << explanation, current_score >>
           ELSE /\ pc' = "news"
                /\ explanation' = Put(Put(explanation, "market_cap_billions", r.shown),
                                      "market_cap_impact", PyInt(r.impact))
                /\ current_score' = current_score + r.impact
                /\ UNCHANGED raised
    /\ UNCHANGED << financial_data, news_headlines, idx, news_sentiment_impact,
                    positive_count, negative_count, final_score, rating, probe, probed >>

\* lines 257-272: one iteration of the for loop
ScanStep ==
    /\ pc = "news"
    /\ idx < Len(news_headlines)
    /\ LET r == Scanned[news_headlines[idx + 1]]
       IN  IF r.raised # ""
           THEN /\ pc' = "raised"
                /\ raised' = r.raised
                /\ UNCHANGED << negative_count, positive_count, news_sentiment_impact >>
           ELSE /\ negative_count' = negative_count + r.negative
                /\ positive_count' = positive_count + r.positive
                /\ news_sentiment_impact' = news_sentiment_impact + r.impact
                /\ UNCHANGED << pc, raised >>
    /\ idx' = idx + 1
    /\ UNCHANGED << financial_data, news_headlines, current_score, explanation,
                    final_score, rating, probe, probed >>

\* lines 274-283: the list is exhausted (or empty); record, clamp and return
Finish ==
    /\ pc = "news"
    /\ idx = Len(news_headlines)
    /\ current_score' = current_score + news_sentiment_impact
    /\ final_score' = ClampScore(current_score')
    /\ explanation' =
         Put(Put(Put(Put(explanation,
             "news_sentiment_impact", PyInt(news_sentiment_impact)),
             "positive_news_count", PyInt(positive_count)),
             "negative_news_count", PyInt(negative_count)),
             "final_score", PyInt(final_score'))
    /\ pc' = "returned"
    /\ UNCHANGED << financial_data, news_headlines, idx, news_sentiment_impact,
                    positive_count, negative_count, raised, rating, probe, probed >>

\* main(), lines 458-479: nothing is rated when financial_data is None
Rate ==
    /\ pc = "returned"
    /\ financial_data.t # "none"
    /\ rating' = get_rating_category(final_score)
    /\ pc' = "rated"
    /\ UNCHANGED << financial_data, news_headlines, idx, current_score, explanation,
                    news_sentiment_impact, positive_count, negative_count, raised,
                    final_score, probe, probed >>

Next == Enter \/ DebtStage \/ MarketCapStage \/ ScanStep \/ Finish \/ Rate

Spec == Init /\ [][Next]_vars

---------------------------------------------------------------------------
(* Direct evaluations of one stage on two inputs, and of the rating bands *)

Parked ==
    /\ pc = "probe"
    /\ financial_data = NoSnapshot
    /\ news_headlines = << >>
    /\ idx = 0
    /\ current_score = 0
    /\ explanation = EmptyDict
    /\ news_sentiment_impact = 0
    /\ positive_count = 0
    /\ negative_count = 0
    /\ raised = ""
    /\ final_score = 0
    /\ rating = ""
    /\ probed = << >>

UnchangedRun ==
    UNCHANGED << pc, financial_data, news_headlines, idx, current_score, explanation,
                 news_sentiment_impact, positive_count, negative_count, raised,
                 final_score, rating, probe >>

\* amounts of the debt-ratio evaluations: every ratio of two small amounts
\* (all band edges among them) and the amounts 150,000,000 and 1,000,000,000
ProbeRevenues == {Missing, PyNone} \cup {PyInt(n) : n \in (0..MaxAmount) \cup {1000}}

ProbeDebts == {Missing, PyNone} \cup {PyInt(n) : n \in (0..MaxAmount) \cup {150}}

InitDebt ==
    /\ Parked
    /\ probe \in {[kind |-> "debt", total_revenue |-> r, total_debt |-> << d1, d2 >>] :
                    r \in ProbeRevenues, d1 \in ProbeDebts, d2 \in ProbeDebts}

\* lines 170-204 on the next of the two total_debt values
ProbeDebt ==
    /\ probe.kind = "debt"
    /\ Len(probed) < 2
    /\ probed' = Append(probed,
         DebtRatioAnalysis(Snapshot(probe.total_revenue,
                                    probe.total_debt[Len(probed) + 1],
                                    Missing, Missing)))
    /\ UnchangedRun

SpecDebt == InitDebt /\ [][ProbeDebt]_vars

\* market caps on both sides of every band edge, in INR and after the
\* conversion from USD, and the amounts 6,000,000,000 and 600,000,000,000
ProbeMarketCaps ==
    {Missing, PyNone} \cup
    {PyInt(n) : n \in {0, 1, 120, 121, 602, 603, 1204, 1205, 6000, 6024, 6025,
                       9999, 10000, 49999, 50000, 99999, 100000,
                       499999, 500000, 600000}}

ProbeCurrencies == {Missing, PyNone, PyStr("USD"), PyStr("INR"), PyStr("EUR"), PyStr("usd")}

InitCap ==
    /\ Parked
    /\ probe \in {[kind |-> "cap", currency |-> c, market_cap |-> << m1, m2 >>] :
                    c \in ProbeCurrencies, m1 \in ProbeMarketCaps, m2 \in ProbeMarketCaps}

\* lines 206-237 on the next of the two market_cap values
ProbeCap ==
    /\ probe.kind = "cap"
    /\ Len(probed) < 2
    /\ probed' = Append(probed,
         MarketCapAnalysis(Snapshot(Missing, Missing,
                                    probe.market_cap[Len(probed) + 1],
                                    probe.currency)))
    /\ UnchangedRun

SpecCap == InitCap /\ [][ProbeCap]_vars

InitRating ==
    /\ Parked
    /\ probe \in {[kind |-> "rating", score |-> s] : s \in ScoreFloor..ScoreCeiling}

\* lines 383-398 on any score of the clamp's range
ProbeRating ==
    /\ probe.kind = "rating"
    /\ Len(probed) < 1
    /\ probed' = << get_rating_category(probe.score) >>
    /\ UnchangedRun

SpecRating == InitRating /\ [][ProbeRating]_vars

---------------------------------------------------------------------------
(* Claims *)

Returned == pc \in {"returned", "rated"}

NumericKeys == {"total_revenue", "total_debt", "market_cap"}

\* a present snapshot whose three amounts are numbers >= 0
ValidSnapshot ==
    /\ financial_data.t = "dict"
    /\ \A k \in NumericKeys :
          LET x == Get(financial_data.d, k, PyInt(0)) IN x.t = "int" /\ x.v >= 0

\* every title and description that is given is a string
WellFormedHeadlines ==
    \A i \in 1..Len(news_headlines) :
        \A k \in DOMAIN news_headlines[i] : news_headlines[i][k].t = "str"

\* C1: for a present snapshot with non-negative numeric amounts, any currency
\* and any headline list, calculate_credit_score returns, and the score it
\* returns lies in 0..100, also when 50 plus the impacts lies outside.
C1_ScoreInRange ==
    /\ Returned => final_score >= 0 /\ final_score <= 100
    /\ ValidSnapshot /\ WellFormedHeadlines => pc # "raised"

\* C1 witness: six negative headlines take the raw sum below 0; 0 is returned
C1_Witness ==
    /\ pc = "returned"
    /\ ValidSnapshot
    /\ current_score < 0
    /\ final_score = 0

\* C2 as stated: with no snapshot, score 0 and an explanation of exactly
\* base_score, the three impacts (all 0) and error =
\* "invalid instrument or data unavailable", for every headline list.
C2_AsStated ==
    financial_data.t = "none" /\ Returned =>
        /\ final_score = 0
        /\ explanation =
             [base_score |-> PyInt(0), debt_ratio_impact |-> PyInt(0),
              market_cap_impact |-> PyInt(0), news_sentiment_impact |-> PyInt(0),
              error |-> PyStr("invalid instrument or data unavailable")]

\* C2 amended: with no snapshot, calculate_credit_score returns score 0 for
\* every headline list and an explanation of exactly base_score, the three
\* impacts (all 0) and error = 'Invalid ticker or data unavailable'; no
\* headline is scanned and no other field is set.
C2_AbsentSnapshot ==
    financial_data.t = "none" =>
        /\ pc \in {"start", "returned"}
        /\ idx = 0
        /\ pc = "returned" =>
             /\ final_score = 0
             /\ DOMAIN explanation =
                  {"base_score", "debt_ratio_impact", "market_cap_impact",
                   "news_sentiment_impact", "error"}
             /\ \A k \in DOMAIN explanation \ {"error"} : explanation[k] = PyInt(0)
             /\ explanation["error"] = PyStr("Invalid ticker or data unavailable")

\* C2 witness: the early return, taken with headlines passed
C2_Witness ==
    /\ financial_data.t = "none"
    /\ pc = "returned"
    /\ Len(news_headlines) = MaxHeadlines

RatingLabels ==
    {"AAA (Excellent)", "AA (Very Good)", "A (Good)", "BBB (Fair)",
     "BB (Below Average)", "B (Poor)", "C (High Risk)"}

\* C3: every integer score of 0..100 gets exactly the label of the band it
\* lies in (85.., 75..84, 65..74, 55..64, 45..54, 35..44, ..34), and each of
\* the seven labels is the label of some score of 0..100.
C3_RatingBands ==
    /\ probe.kind = "rating" /\ Len(probed) = 1 =>
         LET s == probe.score
             label == probed[1]
         IN  /\ label \in RatingLabels
             /\ label = "AAA (Excellent)" <=> s >= 85
             /\ label = "AA (Very Good)" <=> s >= 75 /\ s <= 84
             /\ label = "A (Good)" <=> s >= 65 /\ s <= 74
             /\ label = "BBB (Fair)" <=> s >= 55 /\ s <= 64
             /\ label = "BB (Below Average)" <=> s >= 45 /\ s <= 54
             /\ label = "B (Poor)" <=> s >= 35 /\ s <= 44
             /\ label = "C (High Risk)" <=> s <= 34
    /\ \A label \in RatingLabels :
         \E s \in ScoreFloor..ScoreCeiling : get_rating_category(s) = label

\* C3 witness: the lowest score of the top band has been rated
C3_Witness ==
    /\ probe.kind = "rating"
    /\ probe.score = 85
    /\ probed = << "AAA (Excellent)" >>

\* the headlines whose lowercased title + " " + description holds a negative
\* and a positive keyword
MixedHeadlines ==
    {h \in Headlines :
        /\ \A k \in DOMAIN h : h[k].t = "str"
        /\ LET t == IF "title" \in DOMAIN h THEN h["title"].chars ELSE << >>
               d == IF "description" \in DOMAIN h THEN h["description"].chars ELSE << >>
               text == lower(t) \o <<" ">> \o lower(d)
           IN  /\ \E i \in 1..Len(negative_keywords) : Contains(text, negative_keywords[i])
               /\ \E i \in 1..Len(positive_keywords) : Contains(text, positive_keywords[i])}

\* C4: scanning a headline that holds both a negative and a positive keyword
\* adds 1 to negative_count, nothing to positive_count and -5 to
\* news_sentiment_impact, and the loop goes on.
C4_NegativePrecedence ==
    [][ (pc = "news" /\ idx < Len(news_headlines)
            /\ news_headlines[idx + 1] \in MixedHeadlines)
        => /\ negative_count' = negative_count + 1
           /\ positive_count' = positive_count
           /\ news_sentiment_impact' = news_sentiment_impact - 5
           /\ pc' = "news" ]_vars

\* C4 witness: a list of one mixed headline was scanned and returned with
\* one negative and no positive headline
C4_Witness ==
    /\ Returned
    /\ financial_data.t = "dict"
    /\ Len(news_headlines) = 1
    /\ news_headlines[1] \in MixedHeadlines
    /\ explanation["negative_news_count"] = PyInt(1)
    /\ explanation["positive_news_count"] = PyInt(0)
    /\ explanation["news_sentiment_impact"] = PyInt(-5)

IsAmount(x) == x.t = "int"

C6_MarketCapMonotone ==
    probe.kind = "cap" /\ Len(probed) = 2 =>
        LET m1 == probe.market_cap[1]
            m2 == probe.market_cap[2]
        IN  IsAmount(m1) /\ IsAmount(m2) /\ m1.v <= m2.v
            => /\ probed[1].raised = "" /\ probed[2].raised = ""
               /\ probed[2].impact >= probed[1].impact

\* C6 witness: USD market caps on the two sides of the 100-billion edge
C6_Witness ==
    /\ probe.kind = "cap"
    /\ probe.currency = PyStr("USD")
    /\ probe.market_cap = << PyInt(1204), PyInt(1205) >>
    /\ Len(probed) = 2
    /\ probed[1].impact = 10
    /\ probed[2].impact = 15

\* a sub-metric that is zero or absent: key missing, null, or 0
ZeroOrAbsent(k) ==
    LET d == financial_data.d
    IN  k \notin DOMAIN d \/ d[k] = PyNone \/ d[k] = PyInt(0)

PositiveAmount(k) ==
    LET d == financial_data.d
    IN  k \in DOMAIN d /\ d[k].t = "int" /\ d[k].v > 0

\* C7 as stated: with exactly one of total_revenue, total_debt, market_cap
\* zero or absent (key missing or null) and the others valid, the call
\* returns without raising, the impact of the evaluator that uses the
\* sub-metric is <= 0, and its diagnostic field (debt_ratio, or
\* market_cap_billions) is marked unavailable.
C7_AsStated ==
    \A k \in NumericKeys :
        ( /\ financial_data.t = "dict"
          /\ WellFormedHeadlines
          /\ ZeroOrAbsent(k)
          /\ \A other \in NumericKeys \ {k} : PositiveAmount(other) )
        => /\ pc # "raised"
           /\ Returned =>
                IF k = "market_cap"
                THEN /\ explanation["market_cap_impact"].v <= 0
                     /\ explanation["market_cap_billions"] = PyStr("Data unavailable")
                ELSE /\ explanation["debt_ratio_impact"].v <= 0
                     /\ explanation["debt_ratio"] = PyStr("Data unavailable")

\* the headline with every missing (absent or null) field set to ""
Fill(h) ==
    [k \in {"title", "description"} |->
        IF k \in DOMAIN h /\ h[k].t = "str" THEN h[k] ELSE Text(<< >>)]

FilledScan == [h \in Headlines |-> ScanHeadline(Fill(h))]

RECURSIVE FilledTotal(_, _)
FilledTotal(n, field) ==
    IF n = 0 THEN 0
    ELSE FilledTotal(n - 1, field) + FilledScan[news_headlines[n]][field]

\* C8 as stated: a headline whose title and/or description is missing (key
\* absent or null) is classified as the same headline with that field set
\* to "", the remaining headlines are scanned, and the call returns
\* without raising.
C8_AsStated ==
    ValidSnapshot =>
        /\ pc # "raised"
        /\ pc \in {"news", "returned", "rated"} =>
             /\ negative_count = FilledTotal(idx, "negative")
             /\ positive_count = FilledTotal(idx, "positive")
             /\ news_sentiment_impact = FilledTotal(idx, "impact")
        /\ Returned => idx = Len(news_headlines)

\* C9: for a present snapshot the returned score is 50 plus the three
\* impacts recorded in the explanation, limited to 0..100; base_score is 50
\* and final_score is the returned score; impacts -25, 0 and -10 give 15,
\* which is rated "C (High Risk)".
C9_Aggregation ==
    financial_data.t = "dict" /\ Returned =>
        LET d   == explanation["debt_ratio_impact"].v
            m   == explanation["market_cap_impact"].v
            n   == explanation["news_sentiment_impact"].v
            raw == 50 + d + m + n
        IN  /\ final_score = IF raw < 0 THEN 0 ELSE IF raw > 100 THEN 100 ELSE raw
            /\ explanation["base_score"] = PyInt(50)
            /\ explanation["final_score"] = PyInt(final_score)
            /\ n = 5 * positive_count - 5 * negative_count
            /\ d = -25 /\ m = 0 /\ n = -10 => final_score = 15
            /\ d = -25 /\ m = 0 /\ n = -10 /\ pc = "rated" => rating = "C (High Risk)"

\* C9 witness: impacts -25, 0 and -10 were aggregated to 15 and rated
C9_Witness ==
    /\ pc = "rated"
    /\ explanation["debt_ratio_impact"] = PyInt(-25)
    /\ explanation["market_cap_impact"] = PyInt(0)
    /\ explanation["news_sentiment_impact"] = PyInt(-10)
    /\ final_score = 15
    /\ rating = "C (High Risk)"

\* the amount the code reads: a missing key reads as 0
AmountRead(x) == IF x = Missing THEN PyInt(0) ELSE x

C11_MarketCapBanding ==
    probe.kind = "cap" =>
        \A i \in 1..Len(probed) :
            LET m   == AmountRead(probe.market_cap[i])
                c   == probe.currency
                res == probed[i]
                inr == IF c = PyStr("USD") THEN 83 * m.v ELSE m.v
            IN  /\ IsAmount(m) /\ m.v <= 0 =>
                     /\ res.raised = ""
                     /\ res.impact = 0
                     /\ res.shown = PyStr("Data unavailable")
                /\ IsAmount(m) /\ m.v > 0 =>
                     /\ res.raised = ""
                     /\ res.shown.t = "float2"
                     /\ res.impact =
                          IF inr >= 500000 THEN 20
                          ELSE IF inr >= 100000 THEN 15
                          ELSE IF inr >= 50000 THEN 10
                          ELSE IF inr >= 10000 THEN 5
                          ELSE 0
                /\ m = PyInt(600000) /\ c = PyStr("INR") =>
                     res.impact = 20 /\ res.shown = PyRounded(60000, 2)
                /\ m = PyInt(6000) /\ c = PyStr("USD") =>
                     res.impact = 15 /\ res.shown = PyRounded(49800, 2)

\* C11 witness: 6,000,000,000 USD was evaluated to 498 billion and +15
C11_Witness ==
    /\ probe.kind = "cap"
    /\ probe.currency = PyStr("USD")
    /\ probe.market_cap[1] = PyInt(6000)
    /\ Len(probed) >= 1
    /\ probed[1] = [raised |-> "", impact |-> 15, shown |-> PyRounded(49800, 2)]

---------------------------------------------------------------------------
(* generate_plain_language_summary (lines 285-372).  A sentence is the     *)
(* sequence of the pieces its f-string concatenates; the returned string   *)
(* is the sentences of summary_parts joined by " ".                        *)

\* lines 303-312
OverallAssessment(score) ==
    IF score >= 80 THEN "shows excellent creditworthiness"
    ELSE IF score >= 65 THEN "demonstrates strong financial health"
    ELSE IF score >= 50 THEN "presents a moderate credit profile"
    ELSE IF score >= 35 THEN "shows concerning credit indicators"
    ELSE "exhibits high credit risk"

\* lines 319-342: what each dimension appends to strengths
Strengths(debt_impact, market_cap_impact, news_impact) ==
    (IF debt_impact >= 15 THEN << "excellent debt management" >>
     ELSE IF debt_impact >= 5 THEN << "healthy debt levels" >>
     ELSE << >>)
    \o (IF market_cap_impact >= 15 THEN << "strong market position" >>
        ELSE IF market_cap_impact >= 10 THEN << "solid market presence" >>
        ELSE << >>)
    \o (IF news_impact >= 10 THEN << "positive market sentiment" >>
        ELSE IF news_impact >= 5 THEN << "favorable news coverage" >>
        ELSE << >>)

\* lines 319-342: what each dimension appends to concerns
Concerns(debt_impact, market_cap_impact, news_impact) ==
    (IF debt_impact >= 5 THEN << >>
     ELSE IF debt_impact <= -10 THEN << "high debt burden" >>
     ELSE << >>)
    \o (IF market_cap_impact >= 10 THEN << >>
        ELSE IF market_cap_impact <= 5 THEN << "limited market size" >>
        ELSE << >>)
    \o (IF news_impact >= 5 THEN << >>
        ELSE IF news_impact <= -10 THEN << "negative market sentiment" >>
        ELSE IF news_impact <= -5 THEN << "mixed news sentiment" >>
        ELSE << >>)

\* ', '.join(items): the items with ", " between them
RECURSIVE CommaJoin(_)
CommaJoin(items) ==
    IF Len(items) = 0 THEN << >>
    ELSE IF Len(items) = 1 THEN << items[1] >>
    ELSE << items[1], ", " >> \o CommaJoin(Tail(items))

\* f"{', '.join(items[:-1])}, and {items[-1]}"
OxfordJoin(items) ==
    CommaJoin(SubSeq(items, 1, Len(items) - 1)) \o << ", and ", items[Len(items)] >>

\* lines 347-351: the sentences the strengths add to summary_parts
StrengthSentence(strengths) ==
    IF Len(strengths) = 0 THEN << >>
    ELSE IF Len(strengths) = 1
    THEN << << "The company benefits from ", strengths[1], "." >> >>
    ELSE << << "Key strengths include " >> \o OxfordJoin(strengths) \o << "." >> >>

\* mutant: the single concern is introduced without regard to the strengths
ConcernSentence_NoHowever(strengths, concerns) ==
    IF Len(concerns) = 0 THEN << >>
    ELSE IF Len(concerns) = 1
    THEN << << "Primary concerns include ", concerns[1], "." >> >>
    ELSE << << "Areas of concern include " >> \o OxfordJoin(concerns) \o << "." >> >>

\* lines 353-360: the sentences the concerns add to summary_parts
ConcernSentence(strengths, concerns) ==
    IF Len(concerns) = 0 THEN << >>
    ELSE IF Len(concerns) = 1
    THEN IF Len(strengths) > 0
         THEN << << "However, attention should be paid to ", concerns[1], "." >> >>
         ELSE << << "Primary concerns include ", concerns[1], "." >> >>
    ELSE << << "Areas of concern include " >> \o OxfordJoin(concerns) \o << "." >> >>

\* lines 363-370
Recommendation(score) ==
    IF score >= 75 THEN "This represents a solid investment-grade credit profile."
    ELSE IF score >= 60
    THEN "Overall, this indicates an acceptable credit risk for most investors."
    ELSE IF score >= 40
    THEN "Investors should carefully evaluate the risk-reward profile."
    ELSE "This credit profile suggests significant risk that requires careful consideration."

\* the call: its lists strengths and concerns, and summary_parts
generate_plain_language_summary(score, expl, company_name) ==
    LET debt_impact       == Get(expl, "debt_ratio_impact", PyInt(0)).v
        market_cap_impact == Get(expl, "market_cap_impact", PyInt(0)).v
        news_impact       == Get(expl, "news_sentiment_impact", PyInt(0)).v
        strengths == Strengths(debt_impact, market_cap_impact, news_impact)
        concerns  == Concerns(debt_impact, market_cap_impact, news_impact)
    IN  [strengths |-> strengths,
         concerns  |-> concerns,
         summary_parts |->
            << << "Based on our comprehensive analysis, ", company_name, " ",
                  OverallAssessment(score), "." >> >>
            \o StrengthSentence(strengths)
            \o ConcernSentence(strengths, concerns)
            \o << << Recommendation(score) >> >>]

\* the impacts calculate_credit_score can record (a missing key reads as 0)
SummaryDebtImpacts == {Missing} \cup {PyInt(n) : n \in {25, 15, 5, -5, -15, -25, -10, -20, 0}}

SummaryCapImpacts == {Missing} \cup {PyInt(n) : n \in {0, 5, 10, 15, 20}}

SummaryNewsImpacts ==
    {Missing} \cup {PyInt(SentimentStep * n) : n \in (-MaxHeadlines)..MaxHeadlines}

SummaryScores == ScoreFloor..ScoreCeiling

InitSummary ==
    /\ Parked
    /\ probe \in {[kind |-> "summary", score |-> s, company_name |-> "Tata Consultancy Services",
                   explanation |-> MkDict([debt_ratio_impact |-> d,
                                           market_cap_impact |-> m,
                                           news_sentiment_impact |-> n])] :
                    s \in SummaryScores, d \in SummaryDebtImpacts,
                    m \in SummaryCapImpacts, n \in SummaryNewsImpacts}

\* lines 285-372 on any score and explanation
ProbeSummary ==
    /\ probe.kind = "summary"
    /\ Len(probed) < 1
    /\ probed' = << generate_plain_language_summary(probe.score, probe.explanation,
                                                    probe.company_name) >>
    /\ UnchangedRun

SpecSummary == InitSummary /\ [][ProbeSummary]_vars

---------------------------------------------------------------------------
(* Claims on generate_plain_language_summary *)

ConcernLeadIns ==
    {"However, attention should be paid to ", "Primary concerns include ",
     "Areas of concern include "}

\* the sentences of summary_parts that begin with a concern lead-in
ConcernParts(summary_parts) ==
    {i \in 1..Len(summary_parts) : summary_parts[i][1] \in ConcernLeadIns}

\* C12 as stated: the concern sentence is omitted when concerns is empty;
\* whenever concerns is non-empty it begins "However, ..." if strengths is
\* non-empty and "Primary concerns include ..." if strengths is empty.
C12_AsStated ==
    probe.kind = "summary" /\ Len(probed) = 1 =>
        LET res   == probed[1]
            parts == ConcernParts(res.summary_parts)
        IN  /\ Len(res.concerns) = 0 => parts = {}
            /\ Len(res.concerns) > 0 =>
                 /\ Cardinality(parts) = 1
                 /\ \A i \in parts :
                      res.summary_parts[i][1] =
                          IF Len(res.strengths) > 0
                          THEN "However, attention should be paid to "
                          ELSE "Primary concerns include "

\* C12 amended: the concern sentence is omitted when concerns is empty; with
\* exactly one concern it is "However, attention should be paid to <c>." if
\* strengths is non-empty and "Primary concerns include <c>." if strengths
\* is empty; with two or more concerns it begins "Areas of concern
\* include " whatever strengths is.  It follows the strength sentence, if any.
C12_ConcernClause ==
    probe.kind = "summary" /\ Len(probed) = 1 =>
        LET res   == probed[1]
            parts == ConcernParts(res.summary_parts)
            at    == IF Len(res.strengths) > 0 THEN 3 ELSE 2
        IN  /\ Len(res.concerns) = 0 => parts = {}
            /\ Len(res.concerns) > 0 => parts = {at}
            /\ Len(res.concerns) = 1 /\ Len(res.strengths) > 0 =>
                 res.summary_parts[at] =
                     << "However, attention should be paid to ", res.concerns[1], "." >>
            /\ Len(res.concerns) = 1 /\ Len(res.strengths) = 0 =>
                 res.summary_parts[at] =
                     << "Primary concerns include ", res.concerns[1], "." >>
            /\ Len(res.concerns) >= 2 =>
                 res.summary_parts[at][1] = "Areas of concern include "

\* C12 witness: one strength and one concern; the concern sentence begins
\* with "However, "
C12_Witness ==
    /\ probe.kind = "summary"
    /\ Len(probed) = 1
    /\ probed[1].strengths = << "excellent debt management" >>
    /\ probed[1].concerns = << "limited market size" >>
    /\ probed[1].summary_parts[3] =
         << "However, attention should be paid to ", "limited market size", "." >>

=============================================================================
